---- MODULE Spec2Model ----
(***************************************************************************)
(* Model of deprovisiong_azure.py: one run of main() after the button      *)
(* "Genera Template di Deprovisioning" is pressed.                         *)
(*                                                                         *)
(* Text is a sequence of one-character strings, so that strip(), lower(),  *)
(* sorted(), join and split act on characters as in Python.  A table       *)
(* (pandas DataFrame read with dtype=str) is a record of its header row    *)
(* and its rows; an empty spreadsheet cell is NaN.  Series.astype(str) is  *)
(* modelled as in pandas before 3.0, where NaN becomes the text "nan".     *)
(***************************************************************************)
EXTENDS Integers, Sequences, FiniteSets, TLC

VARIABLES
    pc,                    \* position in main()
    upn_widget,            \* raw text of the "UserPrincipalName" field
    tt_widget,             \* raw text of the ticket field
    upn_input, tt_input,   \* main(): lines 320-321
    f_utenti, f_sm, f_groups, f_umbx, f_owners,       \* uploaded files
    df_utenti, df_sm, df_groups, df_umbx, df_owners,  \* lines 338-342
    display_name, manager_display_name,               \* line 345
    shared_mailboxes, group_names, has_user_mailbox, owner_groups,
    steps, full_text, file_name, avvisi,
    st_log                 \* st.error / st.warning / st.info / st.warning(msg)

vars == <<pc, upn_widget, tt_widget, upn_input, tt_input,
          f_utenti, f_sm, f_groups, f_umbx, f_owners,
          df_utenti, df_sm, df_groups, df_umbx, df_owners,
          display_name, manager_display_name,
          shared_mailboxes, group_names, has_user_mailbox, owner_groups,
          steps, full_text, file_name, avvisi, st_log>>

-----------------------------------------------------------------------------
(* Bounds of the generated inputs *)

\* rows of a generated table
MaxRows == 2
\* columns of a generated table in the header scenarios
MaxCols == 3

-----------------------------------------------------------------------------
(* Python values *)

\* Python None (never a text: its one element is not a character)
None == <<"None">>
\* pandas missing value of an empty cell
NaN == <<"NaN">>
\* the exception raised by mapping[colname] on a missing key
KeyError == <<"KeyError">>

\* characters in ascending code point order, for str comparison
CodePoints == <<"\t", "\n", "\r", " ", "-", ".", "0", "1", "2", "3", "4", "5",
                "6", "7", "8", "9", "@",
                "A", "B", "C", "D", "E", "F", "G", "H", "I", "J", "K", "L", "M",
                "N", "O", "P", "Q", "R", "S", "T", "U", "V", "W", "X", "Y", "Z",
                "_",
                "a", "b", "c", "d", "e", "f", "g", "h", "i", "j", "k", "l", "m",
                "n", "o", "p", "q", "r", "s", "t", "u", "v", "w", "x", "y", "z">>

Ord(c) == CHOOSE i \in 1..Len(CodePoints) : CodePoints[i] = c

UpperChars == <<"A", "B", "C", "D", "E", "F", "G", "H", "I", "J", "K", "L", "M",
                "N", "O", "P", "Q", "R", "S", "T", "U", "V", "W", "X", "Y", "Z">>

LowerChars == <<"a", "b", "c", "d", "e", "f", "g", "h", "i", "j", "k", "l", "m",
                "n", "o", "p", "q", "r", "s", "t", "u", "v", "w", "x", "y", "z">>

\* str.lower() on one character
LowerChar(c) ==
    IF \E i \in 1..Len(UpperChars) : UpperChars[i] = c
    THEN LowerChars[CHOOSE i \in 1..Len(UpperChars) : UpperChars[i] = c]
    ELSE c

\* str.lower()
lower(s) == [i \in 1..Len(s) |-> LowerChar(s[i])]

\* the characters str.strip() removes
IsSpace(c) == c \in {" ", "\t", "\n", "\r"}

RECURSIVE lstrip(_)
lstrip(s) == IF s # <<>> /\ IsSpace(Head(s)) THEN lstrip(Tail(s)) ELSE s

RECURSIVE rstrip(_)
rstrip(s) ==
    IF s # <<>> /\ IsSpace(s[Len(s)]) THEN rstrip(SubSeq(s, 1, Len(s) - 1)) ELSE s

\* str.strip()
strip(s) == rstrip(lstrip(s))

\* Python's < on str: lexicographic by code point
RECURSIVE StrLess(_, _)
StrLess(s, t) ==
    IF t = <<>> THEN FALSE
    ELSE IF s = <<>> THEN TRUE
    ELSE IF Head(s) # Head(t) THEN Ord(Head(s)) < Ord(Head(t))
    ELSE StrLess(Tail(s), Tail(t))

\* sorted(set(...)) of a set of texts
RECURSIVE sorted(_)
sorted(S) ==
    IF S = {} THEN <<>>
    ELSE LET m == CHOOSE x \in S : \A y \in S : x = y \/ StrLess(x, y)
         IN  <<m>> \o sorted(S \ {m})

\* str.replace(old, new) for a one-character old
replace(s, old, new) == [i \in 1..Len(s) |-> IF s[i] = old THEN new ELSE s[i]]

\* "sep".join(parts)
RECURSIVE join(_, _)
join(sep, parts) ==
    IF parts = <<>> THEN <<>>
    ELSE IF Len(parts) = 1 THEN parts[1]
    ELSE parts[1] \o sep \o join(sep, Tail(parts))

\* f"{n}" for a non-negative int
RECURSIVE IntToStr(_)
IntToStr(n) ==
    LET digit == <<"0", "1", "2", "3", "4", "5", "6", "7", "8", "9">>[(n % 10) + 1]
    IN  IF n < 10 THEN <<digit>> ELSE IntToStr(n \div 10) \o <<digit>>

\* x or y, for an optional text
OrElse(x, y) == IF x = None \/ x = <<>> THEN y ELSE x

-----------------------------------------------------------------------------
(* pandas: DataFrame, Series, masks *)

\* a DataFrame: header row and rows of cells (a text or NaN), one per column
DataFrame(cols, rws) == [columns |-> cols, rows |-> rws]

\* the value of a dataframe variable that is None
NoneDf == [none |-> TRUE]

IsNone(df) == "none" \in DOMAIN df

\* df[col]: the Series of the column whose header is exactly col
Column(df, col) ==
    LET j == CHOOSE k \in 1..Len(df.columns) : df.columns[k] = col
    IN  [i \in 1..Len(df.rows) |-> df.rows[i][j]]

\* seq[mask], df.loc[mask]: the entries where the mask is True, in order
RECURSIVE Loc(_, _)
Loc(s, mask) ==
    IF s = <<>> THEN <<>>
    ELSE (IF Head(mask) THEN <<Head(s)>> ELSE <<>>) \o Loc(Tail(s), Tail(mask))

LocRows(df, mask) == DataFrame(df.columns, Loc(df.rows, mask))

\* mask.any()
AnyTrue(mask) == \E i \in 1..Len(mask) : mask[i]

\* Series.astype(str): NaN becomes the text "nan"
AsTypeStr(s) == [i \in 1..Len(s) |-> IF s[i] = NaN THEN <<"n", "a", "n">> ELSE s[i]]

\* Series.str.strip() and Series.str.lower() (NaN stays NaN)
StrStrip(s) == [i \in 1..Len(s) |-> IF s[i] = NaN THEN NaN ELSE strip(s[i])]

StrLower(s) == [i \in 1..Len(s) |-> IF s[i] = NaN THEN NaN ELSE lower(s[i])]

\* series == value
EqMask(s, v) == [i \in 1..Len(s) |-> s[i] = v]

-----------------------------------------------------------------------------
(* Utility: lines 8-64 *)

\* fault: the header is lowercased but not trimmed
_normalize_colname_no_strip(name) == lower(name)

_normalize_colname(name) == lower(strip(name))

\* key in {_normalize_colname(c): c for c in df.columns}
InMapping(df, key) ==
    \E j \in 1..Len(df.columns) : _normalize_colname(df.columns[j]) = key

\* {_normalize_colname(c): c for c in df.columns}[key]: a later column with the
\* same normalized name overwrites an earlier one
Mapping(df, key) ==
    LET J == {j \in 1..Len(df.columns) : _normalize_colname(df.columns[j]) = key}
    IN  df.columns[CHOOSE j \in J : \A k \in J : k <= j]

\* fault: no column is ever reported missing
_require_columns_unchecked(df, required) == [ok |-> TRUE, missing |-> <<>>]

_require_columns(df, required) ==
    LET missing == SelectSeq(required, LAMBDA c : ~InMapping(df, c))
    IN  [ok |-> Len(missing) = 0, missing |-> missing]

\* the real header of a column, or KeyError
_get_name(df, colname) ==
    IF InMapping(df, colname) THEN Mapping(df, colname) ELSE KeyError

_get(df, colname) ==
    IF InMapping(df, colname) THEN Column(df, Mapping(df, colname)) ELSE KeyError

RECURSIVE _resolve_any_column(_, _)
_resolve_any_column(df, candidates) ==
    IF candidates = <<>> THEN None
    ELSE LET key == _normalize_colname(Head(candidates))
         IN  IF InMapping(df, key) THEN Mapping(df, key)
             ELSE _resolve_any_column(df, Tail(candidates))

_get_any(df, candidates) ==
    LET col == _resolve_any_column(df, candidates)
    IN  IF col = None THEN KeyError ELSE Column(df, col)

\* logical_required is the dict's items in order: <<[name, candidates], ...>>
_require_any(df, logical_required) ==
    LET lacking == SelectSeq(logical_required,
                       LAMBDA e : _resolve_any_column(df, e.candidates) = None)
        missing == [i \in 1..Len(lacking) |-> lacking[i].name]
    IN  [ok |-> Len(missing) = 0, missing |-> missing]

\* a file is [uploaded, readable, content]; an unreadable one raises inside
\* pd.read_excel, which is caught: st.error and None
_read_excel(file) == IF file.readable THEN file.content ELSE NoneDf

_read_excel_log(file, label) ==
    IF file.readable THEN <<>> ELSE <<[level |-> "error", what |-> "unreadable", label |-> label]>>

\* fault: the values in row order, neither deduplicated nor sorted
_clean_series_in_row_order(s) ==
    LET texts == [i \in 1..Len(s) |-> IF s[i] = NaN THEN <<>> ELSE strip(s[i])]
    IN  SelectSeq(texts, LAMBDA x : x # <<>>)

_clean_series_to_list(s) ==
    LET kept == {i \in 1..Len(s) : s[i] # NaN}
    IN  sorted({strip(s[i]) : i \in kept} \ {<<>>})

-----------------------------------------------------------------------------
(* Text literals of the source.  A character outside ASCII is one element  *)
(* written "U+hhhh".                                                       *)

(* column names: lines 73, 96, 117-118, 137, 150, 185-187 *)

\* "user principal name"
h_user_principal_name ==
    <<"u", "s", "e", "r", " ", "p", "r", "i", "n", "c", "i", "p", "a", "l",
      " ", "n", "a", "m", "e">>

\* "display name"
h_display_name ==
    <<"d", "i", "s", "p", "l", "a", "y", " ", "n", "a", "m", "e">>

\* "manager display name"
h_manager_display_name ==
    <<"m", "a", "n", "a", "g", "e", "r", " ", "d", "i", "s", "p", "l", "a",
      "y", " ", "n", "a", "m", "e">>

\* "member"
h_member ==
    <<"m", "e", "m", "b", "e", "r">>

\* "emailaddress"
h_emailaddress ==
    <<"e", "m", "a", "i", "l", "a", "d", "d", "r", "e", "s", "s">>

\* "memberuserprincipalname"
h_memberuserprincipalname ==
    <<"m", "e", "m", "b", "e", "r", "u", "s", "e", "r", "p", "r", "i", "n",
      "c", "i", "p", "a", "l", "n", "a", "m", "e">>

\* "userprincipalnamemembro"
h_userprincipalnamemembro ==
    <<"u", "s", "e", "r", "p", "r", "i", "n", "c", "i", "p", "a", "l", "n",
      "a", "m", "e", "m", "e", "m", "b", "r", "o">>

\* "groupname"
h_groupname ==
    <<"g", "r", "o", "u", "p", "n", "a", "m", "e">>

\* "nomegruppo"
h_nomegruppo ==
    <<"n", "o", "m", "e", "g", "r", "u", "p", "p", "o">>

\* "memberemail"
h_memberemail ==
    <<"m", "e", "m", "b", "e", "r", "e", "m", "a", "i", "l">>

\* "emailmembro"
h_emailmembro ==
    <<"e", "m", "a", "i", "l", "m", "e", "m", "b", "r", "o">>

\* "objectkey"
h_objectkey ==
    <<"o", "b", "j", "e", "c", "t", "k", "e", "y">>

\* "owneremail"
h_owneremail ==
    <<"o", "w", "n", "e", "r", "e", "m", "a", "i", "l">>

(* genera_template_deprovisioning and the download name: lines 262-308, 401 *)

\* "[Consip <U+2013> SR][" (line 262)
t_title_ticket_open ==
    <<"[", "C", "o", "n", "s", "i", "p", " ", "U+2013", " ", "S", "R", "]",
      "[">>

\* "] Deprovisioning - " (line 262)
t_title_ticket_close ==
    <<"]", " ", "D", "e", "p", "r", "o", "v", "i", "s", "i", "o", "n", "i",
      "n", "g", " ", "-", " ">>

\* "Consip <U+2013> SR Deprovisioning - " (line 264)
t_title_plain ==
    <<"C", "o", "n", "s", "i", "p", " ", "U+2013", " ", "S", "R", " ", "D",
      "e", "p", "r", "o", "v", "i", "s", "i", "o", "n", "i", "n", "g", " ",
      "-", " ">>

\* "Ciao," (line 267)
t_ciao ==
    <<"C", "i", "a", "o", ",">>

\* "per " (line 268)
t_per ==
    <<"p", "e", "r", " ">>

\* "Disabilitare l<U+2019>account di Azure" (line 272)
t_disabilitare ==
    <<"D", "i", "s", "a", "b", "i", "l", "i", "t", "a", "r", "e", " ", "l",
      "U+2019", "a", "c", "c", "o", "u", "n", "t", " ", "d", "i", " ", "A",
      "z", "u", "r", "e">>

\* "Impostazione Manager con: " (line 273)
t_manager ==
    <<"I", "m", "p", "o", "s", "t", "a", "z", "i", "o", "n", "e", " ", "M",
      "a", "n", "a", "g", "e", "r", " ", "c", "o", "n", ":", " ">>

\* the placeholder "<U+2014>" (line 273)
t_dash ==
    <<"U+2014">>

\* "Impostare Hide dalla Rubrica" (line 274)
t_hide ==
    <<"I", "m", "p", "o", "s", "t", "a", "r", "e", " ", "H", "i", "d", "e",
      " ", "d", "a", "l", "l", "a", " ", "R", "u", "b", "r", "i", "c", "a">>

\* lines 279-280; the raw string keeps "\n" as a backslash and an n, and "\{" of line 281 keeps its backslash
t_pst_head ==
    <<"E", "s", "t", "r", "a", "r", "r", "e", " ", "i", "l", " ", "P", "S",
      "T", " ", "(", "O", "3", "6", "5", " ", "e", "D", "i", "s", "c", "o",
      "v", "e", "r", "y", ")", " ", "d", "a", " ", "a", "r", "c", "h", "i",
      "v", "i", "a", "r", "e", " ", "i", "n", " ", "\\", "n", "a", "s", "c",
      "o", "n", "s", "i", "p", "2", ".", ".", ".", ".", "\\", "b", "a", "c",
      "k", "u", "p", "p", "s", "t", "\\", "0", "3", " ", "-", " ", "b", "a",
      "c", "k", "u", "p", " ", "e", "m", "a", "i", "l", " ", "c", "a", "n",
      "c", "e", "l", "l", "a", "t", "e", "\\">>

\* " (in z7 con psw condivisa)" (line 281)
t_pst_tail ==
    <<" ", "(", "i", "n", " ", "z", "7", " ", "c", "o", "n", " ", "p", "s",
      "w", " ", "c", "o", "n", "d", "i", "v", "i", "s", "a", ")">>

\* "Rimuovere le appartenenze dall<U+2019>utenza Azure" (line 284)
t_appartenenze ==
    <<"R", "i", "m", "u", "o", "v", "e", "r", "e", " ", "l", "e", " ", "a",
      "p", "p", "a", "r", "t", "e", "n", "e", "n", "z", "e", " ", "d", "a",
      "l", "l", "U+2019", "u", "t", "e", "n", "z", "a", " ", "A", "z", "u",
      "r", "e">>

\* "Rimuovere le applicazioni dall<U+2019>utenza Azure" (line 285)
t_applicazioni ==
    <<"R", "i", "m", "u", "o", "v", "e", "r", "e", " ", "l", "e", " ", "a",
      "p", "p", "l", "i", "c", "a", "z", "i", "o", "n", "i", " ", "d", "a",
      "l", "l", "U+2019", "u", "t", "e", "n", "z", "a", " ", "A", "z", "u",
      "r", "e">>

\* "Rimozione ruoli" (line 286)
t_ruoli ==
    <<"R", "i", "m", "o", "z", "i", "o", "n", "e", " ", "r", "u", "o", "l",
      "i">>

\* ". " between the number and the item (line 290)
t_dot ==
    <<".", " ">>

\* ". Rimozione abilitazione da SM:" (line 296)
t_sm_header ==
    <<".", " ", "R", "i", "m", "o", "z", "i", "o", "n", "e", " ", "a", "b",
      "i", "l", "i", "t", "a", "z", "i", "o", "n", "e", " ", "d", "a", " ",
      "S", "M", ":">>

\* "   - " (lines 298, 304)
t_bullet ==
    <<" ", " ", " ", "-", " ">>

\* ". Rimozione gruppi Azure:" (line 302)
t_gruppi_header ==
    <<".", " ", "R", "i", "m", "o", "z", "i", "o", "n", "e", " ", "g", "r",
      "u", "p", "p", "i", " ", "A", "z", "u", "r", "e", ":">>

\* ". Rimozione licenze" (line 308)
t_licenze ==
    <<".", " ", "R", "i", "m", "o", "z", "i", "o", "n", "e", " ", "l", "i",
      "c", "e", "n", "z", "e">>

\* "deprovisioning_" (line 401)
t_file_prefix ==
    <<"d", "e", "p", "r", "o", "v", "i", "s", "i", "o", "n", "i", "n", "g",
      "_">>

\* ".txt" (line 401)
t_file_suffix ==
    <<".", "t", "x", "t">>

-----------------------------------------------------------------------------
(* Estrazione dai file: lines 69-161.  An accessor returns                *)
(* [raised, ret, log]: whether an exception escaped it, its return value,  *)
(* and the st.error / st.warning messages it emitted.                      *)

Raised == [raised |-> TRUE, ret |-> None, log |-> <<>>]

Returned(v, log) == [raised |-> FALSE, ret |-> v, log |-> log]

MissingMsg(label, missing) ==
    [level |-> "error", what |-> "missing", label |-> label, missing |-> missing]

\* the text of one cell of a row, as str(row[col]).strip() if pd.notna(...) else None
CellOrNone(df, row, col) ==
    LET j == CHOOSE k \in 1..Len(df.columns) : df.columns[k] = col
    IN  IF row[j] # NaN THEN strip(row[j]) ELSE None

estrai_da_utenti_azure(upn, df) ==
    LET req == <<h_user_principal_name, h_display_name, h_manager_display_name>>
        chk == _require_columns(df, req)
    IN  IF ~chk.ok
        THEN Returned(<<None, None>>, <<MissingMsg("Utenti_Azure", chk.missing)>>)
        ELSE IF \E i \in 1..Len(req) : _get_name(df, req[i]) = KeyError
        THEN Raised
        ELSE LET upn_col == StrLower(StrStrip(AsTypeStr(_get(df, h_user_principal_name))))
                 mask == EqMask(upn_col, upn)
             IN  IF ~AnyTrue(mask)
                 THEN Returned(<<None, None>>,
                          <<[level |-> "warning", what |-> "no_match", label |-> "Utenti_Azure"]>>)
                 ELSE LET row == Loc(df.rows, mask)[1]
                          dn_col == _get_name(df, h_display_name)
                          mdn_col == _get_name(df, h_manager_display_name)
                          dn == CellOrNone(df, row, dn_col)
                          mdn == CellOrNone(df, row, mdn_col)
                      IN  Returned(<<OrElse(dn, None), OrElse(mdn, None)>>, <<>>)

estrai_shared_mailboxes(upn, df) ==
    LET req == <<h_member, h_emailaddress>>
        chk == _require_columns(df, req)
    IN  IF ~chk.ok
        THEN Returned(<<>>, <<MissingMsg("SharedMailboxesDetails", chk.missing)>>)
        ELSE IF \E i \in 1..Len(req) : _get_name(df, req[i]) = KeyError
        THEN Raised
        ELSE LET member_col == StrLower(StrStrip(AsTypeStr(_get(df, h_member))))
                 mask == EqMask(member_col, upn)
             IN  IF ~AnyTrue(mask) THEN Returned(<<>>, <<>>)
                 ELSE Returned(
                          _clean_series_to_list(_get(LocRows(df, mask), h_emailaddress)),
                          <<>>)

\* required of estrai_group_members: lines 116-119
required_group_members ==
    <<[name |-> "member_upn",
       candidates |-> <<h_memberuserprincipalname, h_userprincipalnamemembro>>],
      [name |-> "group_name", candidates |-> <<h_groupname, h_nomegruppo>>]>>

estrai_group_members(upn, df) ==
    LET required == required_group_members
        chk == _require_any(df, required)
    IN  IF ~chk.ok
        THEN Returned(<<>>, <<MissingMsg("EntraGroupMembers", chk.missing)>>)
        ELSE IF \E i \in 1..Len(required) : _get_any(df, required[i].candidates) = KeyError
        THEN Raised
        ELSE LET member_col ==
                     StrLower(StrStrip(AsTypeStr(_get_any(df, required[1].candidates))))
                 mask == EqMask(member_col, upn)
             IN  IF ~AnyTrue(mask) THEN Returned(<<>>, <<>>)
                 ELSE Returned(
                          _clean_series_to_list(
                              _get_any(LocRows(df, mask), required[2].candidates)),
                          <<>>)

estrai_user_mailbox_exists(upn, df) ==
    LET req == <<h_objectkey>>
        chk == _require_columns(df, req)
    IN  IF ~chk.ok
        THEN Returned(FALSE, <<MissingMsg("UserMailboxes", chk.missing)>>)
        ELSE IF _get_name(df, h_objectkey) = KeyError
        THEN Raised
        ELSE LET obj_col == StrLower(StrStrip(AsTypeStr(_get(df, h_objectkey))))
             IN  Returned(AnyTrue(EqMask(obj_col, upn)), <<>>)

estrai_group_owners_for_user(upn, df) ==
    LET req == <<h_owneremail, h_groupname>>
        chk == _require_columns(df, req)
    IN  IF ~chk.ok
        THEN Returned(<<>>, <<MissingMsg("EntraGroupOwners", chk.missing)>>)
        ELSE IF \E i \in 1..Len(req) : _get_name(df, req[i]) = KeyError
        THEN Raised
        ELSE LET owners == StrLower(StrStrip(AsTypeStr(_get(df, h_owneremail))))
                 mask == EqMask(owners, upn)
             IN  IF ~AnyTrue(mask) THEN Returned(<<>>, <<>>)
                 ELSE Returned(
                          _clean_series_to_list(_get(LocRows(df, mask), h_groupname)),
                          <<>>)

-----------------------------------------------------------------------------
(* Analisi per avvisi: lines 166-246.  A warning is a record naming the    *)
(* message (kind) and the values formatted into it.                        *)

group_candidates == <<h_groupname, h_nomegruppo>>

member_email_candidates == <<h_memberemail, h_emailmembro>>

member_upn_candidates == <<h_memberuserprincipalname, h_userprincipalnamemembro>>

\* the column of member names the owner check reads: line 197
OwnerMemberColumn(df_g) ==
    OrElse(_resolve_any_column(df_g, member_email_candidates),
           _resolve_any_column(df_g, member_upn_candidates))

\* members_all of one owned group: lines 205-210 (the group has rows)
OwnerMembersAll(df_g, grp) ==
    LET grp_col == StrStrip(AsTypeStr(Column(df_g, _resolve_any_column(df_g, group_candidates))))
        mem_col == StrStrip(AsTypeStr(Column(df_g, OwnerMemberColumn(df_g))))
    IN  _clean_series_to_list(Loc(mem_col, EqMask(grp_col, strip(grp))))

\* the one warning of an owned group: the body of the loop, lines 204-221
OwnerGroupWarning(df_g, grp, upn) ==
    LET grp_col == StrStrip(AsTypeStr(Column(df_g, _resolve_any_column(df_g, group_candidates))))
        mask_grp == EqMask(grp_col, strip(grp))
        members_all == OwnerMembersAll(df_g, grp)
        members_all_lower == [i \in 1..Len(members_all) |-> lower(members_all[i])]
        others == SelectSeq(members_all, LAMBDA m : lower(m) # upn)
    IN  IF ~AnyTrue(mask_grp) THEN [kind |-> "no_members", grp |-> grp]
        ELSE IF Len(members_all_lower) = 1 /\ members_all_lower[1] = upn
        THEN [kind |-> "unico", grp |-> grp]
        ELSE IF Len(others) > 0
        THEN [kind |-> "altri", grp |-> grp, others |-> others]
        ELSE [kind |-> "nessun_altro", grp |-> grp]

\* fault: the loop over the owned groups ends after the first group
build_owner_group_warnings_first_group(groups, df_g, upn) ==
    IF groups = <<>> THEN <<>>
    ELSE LET summary == <<[kind |-> "owner_summary", groups |-> groups]>>
         IN  IF IsNone(df_g) THEN summary \o <<[kind |-> "no_file"]>>
             ELSE IF _resolve_any_column(df_g, group_candidates) = None
             THEN summary \o <<[kind |-> "no_group_column"]>>
             ELSE IF OwnerMemberColumn(df_g) = None
             THEN summary \o <<[kind |-> "no_member_column"]>>
             ELSE summary \o <<OwnerGroupWarning(df_g, groups[1], upn)>>

build_owner_group_warnings(groups, df_g, upn) ==
    IF groups = <<>> THEN <<>>
    ELSE LET summary == <<[kind |-> "owner_summary", groups |-> groups]>>
         IN  IF IsNone(df_g) THEN summary \o <<[kind |-> "no_file"]>>
             ELSE IF _resolve_any_column(df_g, group_candidates) = None
             THEN summary \o <<[kind |-> "no_group_column"]>>
             ELSE IF OwnerMemberColumn(df_g) = None
             THEN summary \o <<[kind |-> "no_member_column"]>>
             ELSE summary \o
                  [i \in 1..Len(groups) |-> OwnerGroupWarning(df_g, groups[i], upn)]

\* members_for_sm of one shared mailbox: lines 236-243
SharedMembers(df, sm) ==
    LET member_col == StrLower(StrStrip(AsTypeStr(_get(df, h_member))))
        email_col == StrStrip(AsTypeStr(_get(df, h_emailaddress)))
    IN  _clean_series_to_list(Loc(member_col, EqMask(email_col, sm)))

\* the loop of lines 239-245 over the mailboxes still to visit
RECURSIVE SharedLoop(_, _, _)
SharedLoop(sms, df, upn) ==
    IF sms = <<>> THEN <<>>
    ELSE LET sm == Head(sms)
             email_col == StrStrip(AsTypeStr(_get(df, h_emailaddress)))
             members_for_sm == SharedMembers(df, sm)
             here == IF AnyTrue(EqMask(email_col, sm))
                        /\ Len(members_for_sm) = 1 /\ members_for_sm[1] = upn
                     THEN <<[kind |-> "ultimo_sm", upn |-> upn, sm |-> sm]>>
                     ELSE <<>>
         IN  here \o SharedLoop(Tail(sms), df, upn)

build_shared_mailbox_last_user_warnings(sms, df, upn) ==
    IF sms = <<>> \/ IsNone(df) THEN <<>>
    ELSE IF ~_require_columns(df, <<h_member, h_emailaddress>>).ok THEN <<>>
    ELSE SharedLoop(sms, df, upn)

-----------------------------------------------------------------------------
(* Generazione Template: lines 251-310 *)

\* the numbered step_items: lines 271-286
StepItems(upn, manager, has_mailbox) ==
    <<t_disabilitare, t_manager \o OrElse(manager, t_dash), t_hide>>
    \o (IF has_mailbox THEN <<t_pst_head \o upn \o t_pst_tail>> ELSE <<>>)
    \o <<t_appartenenze, t_applicazioni, t_ruoli>>

\* fault: the step counter is not advanced after a section
StepAfterNoIncrement(step, items) == step

\* step after a dynamic section: "step += 1" inside the if, lines 295-305
StepAfter(step, items) == IF items # <<>> THEN step + 1 ELSE step

\* the "   - x" lines of a section: lines 297-298, 303-304
Bullets(items) == [i \in 1..Len(items) |-> t_bullet \o items[i]]

genera_template_deprovisioning(upn, ticket, dname, manager, sms, groups, has_mailbox) ==
    LET title == IF ticket # None /\ ticket # <<>> /\ strip(ticket) # <<>>
                 THEN t_title_ticket_open \o strip(ticket) \o t_title_ticket_close
                      \o OrElse(dname, upn)
                 ELSE t_title_plain \o OrElse(dname, upn)
        step_items == StepItems(upn, manager, has_mailbox)
        numbered == [idx \in 1..Len(step_items) |->
                        IntToStr(idx) \o t_dot \o step_items[idx]]
        step0 == Len(step_items) + 1
        sm_part == IF sms # <<>>
                   THEN <<IntToStr(step0) \o t_sm_header>> \o Bullets(sms)
                   ELSE <<>>
        step1 == StepAfter(step0, sms)
        group_part == IF groups # <<>>
                      THEN <<IntToStr(step1) \o t_gruppi_header>> \o Bullets(groups)
                      ELSE <<>>
        step2 == StepAfter(step1, groups)
        lines == <<t_ciao, t_per \o upn>> \o numbered \o sm_part \o group_part
                 \o <<IntToStr(step2) \o t_licenze>>
    IN  <<title>> \o lines

\* fault: the title and the body joined by one line break
FullTextOneBreak(lines) == lines[1] \o <<"\n">> \o join(<<"\n">>, Tail(lines))

\* full_text of main: line 396
FullText(lines) == lines[1] \o <<"\n", "\n">> \o join(<<"\n">>, Tail(lines))

\* file_name of the download: line 401
FileName(dname, upn) ==
    t_file_prefix \o replace(OrElse(dname, upn), " ", "_") \o t_file_suffix

-----------------------------------------------------------------------------
(* UI Streamlit: main(), lines 315-419, as the run in which the button is  *)
(* pressed.  st.file_uploader gives None or a file; a file is              *)
(* [uploaded, readable, content].                                          *)

NoFile == [uploaded |-> FALSE, readable |-> FALSE, content |-> NoneDf]

\* an uploaded file pd.read_excel cannot parse
Unreadable == [uploaded |-> TRUE, readable |-> FALSE, content |-> NoneDf]

\* an uploaded spreadsheet
Excel(df) == [uploaded |-> TRUE, readable |-> TRUE, content |-> df]

\* _read_excel(f, label) if f else None: lines 338-342
ReadIfUploaded(f) == IF f.uploaded THEN _read_excel(f) ELSE NoneDf

ReadLogIfUploaded(f, label) == IF f.uploaded THEN _read_excel_log(f, label) ELSE <<>>

InfoMsg(label) == [level |-> "info", what |-> "not_loaded", label |-> label]

\* st.text_input(...).strip().lower(): line 320
NormalizeUpn(text) == lower(strip(text))

\* lines 320-321
ReadInputs ==
    /\ pc = "inputs"
    /\ upn_input' = NormalizeUpn(upn_widget)
    /\ tt_input' = strip(tt_widget)
    /\ pc' = "button"
    /\ UNCHANGED <<upn_widget, tt_widget, f_utenti, f_sm, f_groups, f_umbx, f_owners,
                   df_utenti, df_sm, df_groups, df_umbx, df_owners,
                   display_name, manager_display_name, shared_mailboxes, group_names,
                   has_user_mailbox, owner_groups, steps, full_text, file_name,
                   avvisi, st_log>>

\* lines 332-335: an empty UPN ends the run
ButtonPressed ==
    /\ pc = "button"
    /\ IF upn_input = <<>>
       THEN /\ st_log' = Append(st_log, [level |-> "error", what |-> "no_upn"])
            /\ pc' = "stopped"
       ELSE /\ st_log' = st_log
            /\ pc' = "read"
    /\ UNCHANGED <<upn_widget, tt_widget, upn_input, tt_input,
                   f_utenti, f_sm, f_groups, f_umbx, f_owners,
                   df_utenti, df_sm, df_groups, df_umbx, df_owners,
                   display_name, manager_display_name, shared_mailboxes, group_names,
                   has_user_mailbox, owner_groups, steps, full_text, file_name, avvisi>>

\* lines 338-349
ReadFiles ==
    /\ pc = "read"
    /\ df_utenti' = ReadIfUploaded(f_utenti)
    /\ df_sm' = ReadIfUploaded(f_sm)
    /\ df_groups' = ReadIfUploaded(f_groups)
    /\ df_umbx' = ReadIfUploaded(f_umbx)
    /\ df_owners' = ReadIfUploaded(f_owners)
    /\ st_log' = st_log \o ReadLogIfUploaded(f_utenti, "Utenti_Azure")
                        \o ReadLogIfUploaded(f_sm, "SharedMailboxesDetails")
                        \o ReadLogIfUploaded(f_groups, "EntraGroupMembers")
                        \o ReadLogIfUploaded(f_umbx, "UserMailboxes")
                        \o ReadLogIfUploaded(f_owners, "EntraGroupOwners")
    /\ display_name' = None
    /\ manager_display_name' = None
    /\ shared_mailboxes' = <<>>
    /\ group_names' = <<>>
    /\ has_user_mailbox' = FALSE
    /\ owner_groups' = <<>>
    /\ pc' = "utenti"
    /\ UNCHANGED <<upn_widget, tt_widget, upn_input, tt_input,
                   f_utenti, f_sm, f_groups, f_umbx, f_owners,
                   steps, full_text, file_name, avvisi>>

\* lines 351-354
EstraiUtenti ==
    /\ pc = "utenti"
    /\ IF IsNone(df_utenti)
       THEN /\ st_log' = Append(st_log, InfoMsg("Utenti_Azure"))
            /\ UNCHANGED <<display_name, manager_display_name>>
            /\ pc' = "sm"
       ELSE LET r == estrai_da_utenti_azure(upn_input, df_utenti)
            IN  IF r.raised
                THEN /\ pc' = "raised"
                     /\ UNCHANGED <<display_name, manager_display_name, st_log>>
                ELSE /\ display_name' = r.ret[1]
                     /\ manager_display_name' = r.ret[2]
                     /\ st_log' = st_log \o r.log
                     /\ pc' = "sm"
    /\ UNCHANGED <<upn_widget, tt_widget, upn_input, tt_input,
                   f_utenti, f_sm, f_groups, f_umbx, f_owners,
                   df_utenti, df_sm, df_groups, df_umbx, df_owners,
                   shared_mailboxes, group_names, has_user_mailbox, owner_groups,
                   steps, full_text, file_name, avvisi>>

\* lines 356-359
EstraiSharedMailboxes ==
    /\ pc = "sm"
    /\ IF IsNone(df_sm)
       THEN /\ st_log' = Append(st_log, InfoMsg("SharedMailboxesDetails"))
            /\ UNCHANGED shared_mailboxes
            /\ pc' = "groups"
       ELSE LET r == estrai_shared_mailboxes(upn_input, df_sm)
            IN  IF r.raised
                THEN /\ pc' = "raised"
                     /\ UNCHANGED <<shared_mailboxes, st_log>>
                ELSE /\ shared_mailboxes' = r.ret
                     /\ st_log' = st_log \o r.log
                     /\ pc' = "groups"
    /\ UNCHANGED <<upn_widget, tt_widget, upn_input, tt_input,
                   f_utenti, f_sm, f_groups, f_umbx, f_owners,
                   df_utenti, df_sm, df_groups, df_umbx, df_owners,
                   display_name, manager_display_name,
                   group_names, has_user_mailbox, owner_groups,
                   steps, full_text, file_name, avvisi>>

\* lines 361-364
EstraiGroupMembers ==
    /\ pc = "groups"
    /\ IF IsNone(df_groups)
       THEN /\ st_log' = Append(st_log, InfoMsg("EntraGroupMembers"))
            /\ UNCHANGED group_names
            /\ pc' = "umbx"
       ELSE LET r == estrai_group_members(upn_input, df_groups)
            IN  IF r.raised
                THEN /\ pc' = "raised"
                     /\ UNCHANGED <<group_names, st_log>>
                ELSE /\ group_names' = r.ret
                     /\ st_log' = st_log \o r.log
                     /\ pc' = "umbx"
    /\ UNCHANGED <<upn_widget, tt_widget, upn_input, tt_input,
                   f_utenti, f_sm, f_groups, f_umbx, f_owners,
                   df_utenti, df_sm, df_groups, df_umbx, df_owners,
                   display_name, manager_display_name,
                   shared_mailboxes, has_user_mailbox, owner_groups,
                   steps, full_text, file_name, avvisi>>

\* lines 366-369
EstraiUserMailbox ==
    /\ pc = "umbx"
    /\ IF IsNone(df_umbx)
       THEN /\ st_log' = Append(st_log, InfoMsg("UserMailboxes"))
            /\ UNCHANGED has_user_mailbox
            /\ pc' = "owners"
       ELSE LET r == estrai_user_mailbox_exists(upn_input, df_umbx)
            IN  IF r.raised
                THEN /\ pc' = "raised"
                     /\ UNCHANGED <<has_user_mailbox, st_log>>
                ELSE /\ has_user_mailbox' = r.ret
                     /\ st_log' = st_log \o r.log
                     /\ pc' = "owners"
    /\ UNCHANGED <<upn_widget, tt_widget, upn_input, tt_input,
                   f_utenti, f_sm, f_groups, f_umbx, f_owners,
                   df_utenti, df_sm, df_groups, df_umbx, df_owners,
                   display_name, manager_display_name,
                   shared_mailboxes, group_names, owner_groups,
                   steps, full_text, file_name, avvisi>>

\* lines 371-374
EstraiGroupOwners ==
    /\ pc = "owners"
    /\ IF IsNone(df_owners)
       THEN /\ st_log' = Append(st_log, InfoMsg("EntraGroupOwners"))
            /\ UNCHANGED owner_groups
            /\ pc' = "template"
       ELSE LET r == estrai_group_owners_for_user(upn_input, df_owners)
            IN  IF r.raised
                THEN /\ pc' = "raised"
                     /\ UNCHANGED <<owner_groups, st_log>>
                ELSE /\ owner_groups' = r.ret
                     /\ st_log' = st_log \o r.log
                     /\ pc' = "template"
    /\ UNCHANGED <<upn_widget, tt_widget, upn_input, tt_input,
                   f_utenti, f_sm, f_groups, f_umbx, f_owners,
                   df_utenti, df_sm, df_groups, df_umbx, df_owners,
                   display_name, manager_display_name,
                   shared_mailboxes, group_names, has_user_mailbox,
                   steps, full_text, file_name, avvisi>>

\* lines 377-392
GeneraTemplate ==
    /\ pc = "template"
    /\ steps' = genera_template_deprovisioning(upn_input, tt_input, display_name,
                    manager_display_name, shared_mailboxes, group_names,
                    has_user_mailbox)
    /\ pc' = "export"
    /\ UNCHANGED <<upn_widget, tt_widget, upn_input, tt_input,
                   f_utenti, f_sm, f_groups, f_umbx, f_owners,
                   df_utenti, df_sm, df_groups, df_umbx, df_owners,
                   display_name, manager_display_name,
                   shared_mailboxes, group_names, has_user_mailbox, owner_groups,
                   full_text, file_name, avvisi, st_log>>

\* lines 395-403
Export ==
    /\ pc = "export"
    /\ full_text' = FullText(steps)
    /\ file_name' = FileName(display_name, upn_input)
    /\ pc' = "avvisi"
    /\ UNCHANGED <<upn_widget, tt_widget, upn_input, tt_input,
                   f_utenti, f_sm, f_groups, f_umbx, f_owners,
                   df_utenti, df_sm, df_groups, df_umbx, df_owners,
                   display_name, manager_display_name,
                   shared_mailboxes, group_names, has_user_mailbox, owner_groups,
                   steps, avvisi, st_log>>

\* lines 408-419
Avvisi ==
    /\ pc = "avvisi"
    /\ avvisi' = build_owner_group_warnings(owner_groups, df_groups, upn_input)
                 \o build_shared_mailbox_last_user_warnings(shared_mailboxes, df_sm,
                                                            upn_input)
    /\ st_log' = st_log \o [i \in 1..Len(avvisi') |->
                               [level |-> "warning", what |-> "avviso", msg |-> avvisi'[i]]]
    /\ pc' = "done"
    /\ UNCHANGED <<upn_widget, tt_widget, upn_input, tt_input,
                   f_utenti, f_sm, f_groups, f_umbx, f_owners,
                   df_utenti, df_sm, df_groups, df_umbx, df_owners,
                   display_name, manager_display_name,
                   shared_mailboxes, group_names, has_user_mailbox, owner_groups,
                   steps, full_text, file_name>>

Next ==
    \/ ReadInputs
    \/ ButtonPressed
    \/ ReadFiles
    \/ EstraiUtenti
    \/ EstraiSharedMailboxes
    \/ EstraiGroupMembers
    \/ EstraiUserMailbox
    \/ EstraiGroupOwners
    \/ GeneraTemplate
    \/ Export
    \/ Avvisi

-----------------------------------------------------------------------------
(* Inputs: the texts typed (lines 320-321) and the spreadsheets uploaded    *)
(* (lines 324-328).                                                        *)

(* header rows of the uploaded spreadsheets *)

\* "User principal name"
H_UserPrincipalName ==
    <<"U", "s", "e", "r", " ", "p", "r", "i", "n", "c", "i", "p", "a", "l",
      " ", "n", "a", "m", "e">>

\* "Display name"
H_DisplayName ==
    <<"D", "i", "s", "p", "l", "a", "y", " ", "n", "a", "m", "e">>

\* "Manager display name"
H_ManagerDisplayName ==
    <<"M", "a", "n", "a", "g", "e", "r", " ", "d", "i", "s", "p", "l", "a",
      "y", " ", "n", "a", "m", "e">>

\* "Member"
H_Member ==
    <<"M", "e", "m", "b", "e", "r">>

\* "member " (trailing blank)
H_member_sp ==
    <<"m", "e", "m", "b", "e", "r", " ">>

\* "EmailAddress"
H_EmailAddress ==
    <<"E", "m", "a", "i", "l", "A", "d", "d", "r", "e", "s", "s">>

\* "EMAILADDRESS"
H_EMAILADDRESS ==
    <<"E", "M", "A", "I", "L", "A", "D", "D", "R", "E", "S", "S">>

\* "MemberUserPrincipalName"
H_MemberUserPrincipalName ==
    <<"M", "e", "m", "b", "e", "r", "U", "s", "e", "r", "P", "r", "i", "n",
      "c", "i", "p", "a", "l", "N", "a", "m", "e">>

\* " UserPrincipalNameMembro" (leading blank)
H_UserPrincipalNameMembro ==
    <<" ", "U", "s", "e", "r", "P", "r", "i", "n", "c", "i", "p", "a", "l",
      "N", "a", "m", "e", "M", "e", "m", "b", "r", "o">>

\* "GroupName"
H_GroupName ==
    <<"G", "r", "o", "u", "p", "N", "a", "m", "e">>

\* "groupname " (trailing blank)
H_groupname_sp ==
    <<"g", "r", "o", "u", "p", "n", "a", "m", "e", " ">>

\* "NomeGruppo"
H_NomeGruppo ==
    <<"N", "o", "m", "e", "G", "r", "u", "p", "p", "o">>

\* "MemberEmail"
H_MemberEmail ==
    <<"M", "e", "m", "b", "e", "r", "E", "m", "a", "i", "l">>

\* "EMAILMEMBRO"
H_EMAILMEMBRO ==
    <<"E", "M", "A", "I", "L", "M", "E", "M", "B", "R", "O">>

\* "ObjectKey"
H_ObjectKey ==
    <<"O", "b", "j", "e", "c", "t", "K", "e", "y">>

\* "OwnerEmail"
H_OwnerEmail ==
    <<"O", "w", "n", "e", "r", "E", "m", "a", "i", "l">>

\* "Note", a column no accessor reads
H_Note ==
    <<"N", "o", "t", "e">>

(* cell and widget texts *)

\* the user of the run, as typed in lowercase
U1 == <<"u">>
\* the same user in another letter case, with blanks around
U1v == <<" ", "U", " ">>
\* another user
U2 == <<"v">>
\* the text "NaN" typed as a user name
Wnan == <<"N", "a", "N">>
Blank == <<" ">>
G1 == <<"g">>
G1up == <<"G">>
G1sp == <<"g", " ">>
G2 == <<"h">>
S1 == <<"s">>
S1sp == <<" ", "s">>
S2 == <<"t">>
\* a cell holding a line break
S1nl == <<"s", "\n", "t">>
D1 == <<"D">>
D2 == <<"E">>
D1nl == <<"D", "\n", "E">>
M1 == <<"M">>
M1nl == <<"M", "\n", "N">>
T7 == <<" ", "T", "7", " ">>

\* the sequences over S of length at most n
SeqUpTo(S, n) == UNION {[1..k -> S] : k \in 0..n}

\* the sequences over S of length at most n without a repeated element
InjSeqUpTo(S, n) ==
    {s \in SeqUpTo(S, n) : \A i, j \in 1..Len(s) : i # j => s[i] # s[j]}

\* the spreadsheets with the given header row and at most MaxRows rows of Rows
Sheets(cols, Rows) == {Excel(DataFrame(cols, rws)) : rws \in SeqUpTo(Rows, MaxRows)}

\* the state when the script starts, for given widget texts and uploads
InitWith(W, T, FU, FS, FG, FM, FO) ==
    /\ pc = "inputs"
    /\ upn_widget \in W
    /\ tt_widget \in T
    /\ f_utenti \in FU
    /\ f_sm \in FS
    /\ f_groups \in FG
    /\ f_umbx \in FM
    /\ f_owners \in FO
    /\ upn_input = <<>>
    /\ tt_input = <<>>
    /\ df_utenti = NoneDf
    /\ df_sm = NoneDf
    /\ df_groups = NoneDf
    /\ df_umbx = NoneDf
    /\ df_owners = NoneDf
    /\ display_name = None
    /\ manager_display_name = None
    /\ shared_mailboxes = <<>>
    /\ group_names = <<>>
    /\ has_user_mailbox = FALSE
    /\ owner_groups = <<>>
    /\ steps = <<>>
    /\ full_text = <<>>
    /\ file_name = <<>>
    /\ avvisi = <<>>
    /\ st_log = <<>>

-----------------------------------------------------------------------------
(* Spec: every combination of the five uploads being absent, unreadable,   *)
(* without a required column, without a matching row, or with one; the     *)
(* UPN field empty, blank or filled.                                       *)

UtentiCols == <<H_UserPrincipalName, H_DisplayName, H_ManagerDisplayName>>

SmCols == <<H_Member, H_EmailAddress>>

GroupsCols == <<H_GroupName, H_MemberUserPrincipalName>>

UmbxCols == <<H_ObjectKey>>

OwnersCols == <<H_OwnerEmail, H_GroupName>>

FiveStates(lacking, cols, other, match) ==
    {NoFile, Unreadable,
     Excel(DataFrame(lacking, <<>>)),
     Excel(DataFrame(cols, <<other>>)),
     Excel(DataFrame(cols, <<other, match>>))}

Init ==
    InitWith({<<>>, Blank, U1v}, {<<>>},
        FiveStates(<<H_UserPrincipalName, H_DisplayName>>, UtentiCols,
                   <<U2, D2, M1>>, <<U1, D1, M1>>),
        FiveStates(<<H_Member>>, SmCols, <<U2, S2>>, <<U1, S1>>),
        FiveStates(<<H_GroupName>>, GroupsCols, <<G2, U2>>, <<G1, U1>>),
        FiveStates(<<H_Note>>, UmbxCols, <<U2>>, <<U1>>),
        FiveStates(<<H_OwnerEmail>>, OwnersCols, <<U2, G2>>, <<U1, G1>>))

Spec == Init /\ [][Next]_vars

-----------------------------------------------------------------------------
(* SpecAccessors: one upload at a time, with every table of at most        *)
(* MaxRows rows over key cells and value cells in varied case, with blanks *)
(* around, repeated, blank or empty.                                       *)

Widgets == {U1, U1v, U2, Wnan}

KeyCells == {U1, U1v, U2, NaN}

ValueCells == {G1, G1up, G1sp, G2, Blank, NaN}

ListRows == {<<k, v>> : k \in KeyCells, v \in {G1, G2}}
            \cup {<<U1, v>> : v \in ValueCells}

UtentiRows == {<<k, d, m>> : k \in KeyCells, d \in {D1, D2}, m \in {M1}}
              \cup {<<U1, d, m>> : d \in {Blank, NaN}, m \in {NaN}}

SwapRows(Rows) == {<<r[2], r[1]>> : r \in Rows}

InitAccessors ==
    \/ InitWith(Widgets, {<<>>}, Sheets(UtentiCols, UtentiRows),
                {NoFile}, {NoFile}, {NoFile}, {NoFile})
    \/ InitWith(Widgets, {<<>>}, {NoFile}, Sheets(SmCols, ListRows),
                {NoFile}, {NoFile}, {NoFile})
    \/ InitWith(Widgets, {<<>>}, {NoFile}, {NoFile},
                Sheets(GroupsCols, SwapRows(ListRows)), {NoFile}, {NoFile})
    \/ InitWith(Widgets, {<<>>}, {NoFile}, {NoFile}, {NoFile},
                Sheets(UmbxCols, {<<k>> : k \in KeyCells}), {NoFile})
    \/ InitWith(Widgets, {<<>>}, {NoFile}, {NoFile}, {NoFile}, {NoFile},
                Sheets(OwnersCols, ListRows))

SpecAccessors == InitAccessors /\ [][Next]_vars

-----------------------------------------------------------------------------
(* SpecWarnings: the owner of no, one or two groups against every          *)
(* membership table of at most MaxRows rows in each column layout, and     *)
(* every shared-mailbox table of at most MaxRows rows.                     *)

OwnersSheets ==
    {Excel(DataFrame(OwnersCols, rws)) :
        rws \in {<<>>, <<<<U1, G1>>>>, <<<<U1, G2>>, <<U1v, G1>>>>}}

MemberCells == {U1, U1v, U2, Blank, NaN}

GroupsSheets ==
    {NoFile}
    \cup Sheets(<<H_GroupName, H_MemberUserPrincipalName>>,
                {<<g, m>> : g \in {G1sp, G2}, m \in MemberCells})
    \cup Sheets(<<H_NomeGruppo, H_EMAILMEMBRO>>,
                {<<g, m>> : g \in {G1sp, G2}, m \in MemberCells})
    \cup Sheets(<<H_GroupName, H_MemberEmail, H_MemberUserPrincipalName>>,
                {<<G1, e, m>> : e \in {U1, U2, NaN}, m \in {U1, U2}})
    \cup Sheets(<<H_MemberUserPrincipalName>>, {<<U1>>})
    \cup Sheets(<<H_GroupName>>, {<<G1>>})

SmSheets ==
    Sheets(SmCols, {<<m, e>> : m \in MemberCells, e \in {S1sp, S2}})

InitWarnings ==
    \/ InitWith({U1v}, {<<>>}, {NoFile}, {NoFile}, GroupsSheets, {NoFile}, OwnersSheets)
    \/ InitWith({U1v}, {<<>>}, {NoFile}, SmSheets, {NoFile}, {NoFile}, {NoFile})

SpecWarnings == InitWarnings /\ [][Next]_vars

-----------------------------------------------------------------------------
(* SpecTemplate: with and without a user mailbox, a ticket, a display name *)
(* and a manager; no, one or two shared mailboxes and groups; cells that   *)
(* hold a line break.                                                      *)

InitTemplate ==
    InitWith({U1v}, {<<>>, T7},
        {NoFile} \cup {Excel(DataFrame(UtentiCols, <<r>>)) :
                          r \in {<<U1, D1, M1>>, <<U1, D1nl, NaN>>, <<U1, NaN, M1nl>>}},
        {NoFile} \cup {Excel(DataFrame(SmCols, rws)) :
                          rws \in {<<<<U1, S1>>>>, <<<<U1, S2>>, <<U1, S1>>>>,
                                   <<<<U1, S1nl>>>>}},
        {NoFile} \cup {Excel(DataFrame(GroupsCols, rws)) :
                          rws \in {<<<<G1, U1>>>>, <<<<G2, U1>>, <<G1, U1>>>>}},
        {NoFile, Excel(DataFrame(UmbxCols, <<<<U1>>>>))},
        {NoFile})

SpecTemplate == InitTemplate /\ [][Next]_vars

-----------------------------------------------------------------------------
(* SpecHeaders: membership and shared-mailbox tables under every header    *)
(* row of at most MaxCols distinct headers, in every order.                *)

GroupsHeaders ==
    {H_GroupName, H_groupname_sp, H_NomeGruppo, H_MemberEmail, H_EMAILMEMBRO,
     H_MemberUserPrincipalName, H_UserPrincipalNameMembro, H_Note}

SmHeaders == {H_Member, H_member_sp, H_EmailAddress, H_EMAILADDRESS, H_Note}

\* the cell of the one row under a header: the user under a member-name header,
\* and elsewhere the header's own text, so that the column a value was read
\* from shows in the value
CellUnder(h) ==
    IF lower(strip(h)) \in {h_memberuserprincipalname, h_userprincipalnamemembro, h_member}
    THEN U1 ELSE h

OneRowSheet(cols) ==
    Excel(DataFrame(cols, <<[j \in 1..Len(cols) |-> CellUnder(cols[j])]>>))

HeaderOwners ==
    Excel(DataFrame(OwnersCols,
        <<<<U1, H_GroupName>>, <<U1, H_NomeGruppo>>, <<U1, H_groupname_sp>>>>))

InitHeaders ==
    \/ InitWith({U1v}, {<<>>}, {NoFile}, {NoFile},
                {OneRowSheet(cols) : cols \in InjSeqUpTo(GroupsHeaders, MaxCols)},
                {NoFile}, {HeaderOwners})
    \/ InitWith({U1v}, {<<>>}, {NoFile},
                {OneRowSheet(cols) : cols \in InjSeqUpTo(SmHeaders, MaxCols)},
                {NoFile}, {NoFile}, {NoFile})

SpecHeaders == InitHeaders /\ [][Next]_vars

-----------------------------------------------------------------------------
(* Properties *)

PcOrder == <<"inputs", "button", "read", "utenti", "sm", "groups", "umbx", "owners",
             "template", "export", "avvisi", "done">>

PcIndex(p) ==
    IF \E i \in 1..Len(PcOrder) : PcOrder[i] = p
    THEN CHOOSE i \in 1..Len(PcOrder) : PcOrder[i] = p
    ELSE 0

\* the run has gone past position p
Past(p) == PcIndex(pc) > PcIndex(p)

Range(s) == {s[i] : i \in 1..Len(s)}

IsDigit(c) == c \in {"0", "1", "2", "3", "4", "5", "6", "7", "8", "9"}

RECURSIVE LeadingDigits(_)
LeadingDigits(line) ==
    IF line # <<>> /\ IsDigit(Head(line)) THEN 1 + LeadingDigits(Tail(line)) ELSE 0

\* a line that reads "<number>. <item>"
IsNumbered(line) ==
    LET k == LeadingDigits(line)
    IN  k > 0 /\ Len(line) >= k + 2 /\ line[k + 1] = "." /\ line[k + 2] = " "

DigitValue(c) == CHOOSE d \in 0..9 : IntToStr(d) = <<c>>

RECURSIVE DecimalValue(_)
DecimalValue(ds) ==
    IF ds = <<>> THEN 0
    ELSE 10 * DecimalValue(SubSeq(ds, 1, Len(ds) - 1)) + DigitValue(ds[Len(ds)])

NumberOf(line) == DecimalValue(SubSeq(line, 1, LeadingDigits(line)))

ItemOf(line) == SubSeq(line, LeadingDigits(line) + 3, Len(line))

NumberedLines == SelectSeq(steps, IsNumbered)

\* C1: the numbered lines of the checklist, in order, carry 1, 2, ..., k with
\* no gap and no repeat, and the last numbered line is "Rimozione licenze",
\* whether or not the mailbox step, the shared-mailbox section and the group
\* section are present.
C1_ContiguousNumbering ==
    Past("template") =>
        /\ NumberedLines # <<>>
        /\ \A i \in 1..Len(NumberedLines) : NumberOf(NumberedLines[i]) = i
        /\ ItemOf(NumberedLines[Len(NumberedLines)]) = SubSeq(t_licenze, 3, Len(t_licenze))
        /\ Len(NumberedLines) = 7 + (IF has_user_mailbox THEN 1 ELSE 0)
                                  + (IF shared_mailboxes # <<>> THEN 1 ELSE 0)
                                  + (IF group_names # <<>> THEN 1 ELSE 0)

\* C1 witness: a checklist with the mailbox step and both sections, whose last
\* number has two digits
C1_Witness ==
    /\ pc = "done"
    /\ has_user_mailbox
    /\ Len(shared_mailboxes) = 2
    /\ Len(group_names) = 2
    /\ Len(NumberedLines) = 10
    /\ steps[Len(steps)] = <<"1", "0">> \o t_licenze

\* text.split(sep) for a one-character sep
RECURSIVE split(_, _)
split(text, sep) ==
    IF \A i \in 1..Len(text) : text[i] # sep THEN <<text>>
    ELSE LET i == CHOOSE k \in 1..Len(text) :
                      text[k] = sep /\ \A m \in 1..(k - 1) : text[m] # sep
         IN  <<SubSeq(text, 1, i - 1)>> \o split(SubSeq(text, i + 1, Len(text)), sep)

HasLineBreak(line) == \E i \in 1..Len(line) : line[i] = "\n"

RoundTrips == split(full_text, "\n") = <<steps[1], <<>>>> \o Tail(steps)

\* C9 as claimed: for every checklist, splitting the text export on line breaks
\* gives back the title, one empty line, and the remaining lines in order.
C9_RoundTripAlways == Past("export") => RoundTrips

\* C9 amended: the export splits back into the title, one empty line and the
\* remaining lines exactly when no line of the checklist holds a line break.
C9_RoundTripWithoutLineBreaks ==
    Past("export") => (RoundTrips <=> \A i \in 1..Len(steps) : ~HasLineBreak(steps[i]))

\* C9 witness: an exported checklist with a ticket, a display name, two shared
\* mailboxes and two groups, none holding a line break, that splits back
C9_Witness ==
    /\ pc = "done"
    /\ tt_input # <<>>
    /\ display_name = D1
    /\ Len(shared_mailboxes) = 2
    /\ Len(group_names) = 2
    /\ RoundTrips
    /\ Len(split(full_text, "\n")) = Len(steps) + 1

\* the comparison of the claims: trimmed and lowercased on both sides
Norm(x) == lower(strip(x))

\* the rows of a table whose (present) key cell equals the typed user name after
\* trimming and lowercasing both
PresentMatch(df, keyHeader) ==
    {i \in 1..Len(df.rows) :
        LET c == Column(df, keyHeader)[i]
        IN  c # NaN /\ Norm(c) = Norm(upn_widget)}

\* an empty key cell while the typed user name reads "nan" in some letter case
EmptyKeyReadAsText(df, keyHeader) ==
    /\ Norm(upn_widget) = <<"n", "a", "n">>
    /\ \E i \in 1..Len(df.rows) : Column(df, keyHeader)[i] = NaN

\* the trimmed, non-empty values of the rows that match
MatchedValues(df, keyHeader, valueHeader) ==
    {strip(Column(df, valueHeader)[i]) :
        i \in {k \in PresentMatch(df, keyHeader) : Column(df, valueHeader)[k] # NaN}}
    \ {<<>>}

\* the trimmed text of a cell, None when the cell is empty or blank
TextOrNone(c) == IF c = NaN \/ strip(c) = <<>> THEN None ELSE strip(c)

\* a table was read and its accessor has run
Ran(p, df) == Past(p) /\ ~IsNone(df)

\* the result of each accessor is that of the rows whose key cell is present
\* and equals the typed user name after trimming and lowercasing both; with
\* presentOnly, only on the tables EmptyKeyReadAsText leaves
ResultsOfMatchingRows(presentOnly) ==
    LET Covered(df, keyHeader) == presentOnly => ~EmptyKeyReadAsText(df, keyHeader)
    IN
    /\ (Ran("utenti", df_utenti) /\ Covered(df_utenti, H_UserPrincipalName)) =>
          LET M == PresentMatch(df_utenti, H_UserPrincipalName)
          IN  IF M = {}
              THEN display_name = None /\ manager_display_name = None
              ELSE LET first == CHOOSE i \in M : \A k \in M : i <= k
                   IN  /\ display_name =
                             TextOrNone(Column(df_utenti, H_DisplayName)[first])
                       /\ manager_display_name =
                             TextOrNone(Column(df_utenti, H_ManagerDisplayName)[first])
    /\ (Ran("sm", df_sm) /\ Covered(df_sm, H_Member)) =>
          Range(shared_mailboxes) = MatchedValues(df_sm, H_Member, H_EmailAddress)
    /\ (Ran("groups", df_groups) /\ Covered(df_groups, H_MemberUserPrincipalName)) =>
          Range(group_names) =
              MatchedValues(df_groups, H_MemberUserPrincipalName, H_GroupName)
    /\ (Ran("umbx", df_umbx) /\ Covered(df_umbx, H_ObjectKey)) =>
          (has_user_mailbox <=> PresentMatch(df_umbx, H_ObjectKey) # {})
    /\ (Ran("owners", df_owners) /\ Covered(df_owners, H_OwnerEmail)) =>
          Range(owner_groups) = MatchedValues(df_owners, H_OwnerEmail, H_GroupName)

\* C2: in each of the five accessors a row matches exactly when its key cell and
\* the typed user name are equal after trimming and lowercasing both, so the
\* result is that of the rows whose key cell is so equal to the name.
C2_KeyMatchingNormalizesBothSides == ResultsOfMatchingRows(FALSE)

\* the matching of C2 on every table but those with an empty key cell read
\* under a typed name "nan": astype(str) turns the empty cell into that text
KeyMatchingOfPresentKeyCells == ResultsOfMatchingRows(TRUE)

\* the name typed in lowercase finds the row whose key cell is in uppercase
\* with blanks around, and not the other user's row
KeyMatchingReached ==
    /\ pc = "done"
    /\ upn_widget = U1
    /\ ~IsNone(df_owners)
    /\ df_owners.rows = <<<<U1v, G2>>, <<U2, G1>>>>
    /\ owner_groups = <<G2>>

StrictlySorted(L) == \A i \in 1..(Len(L) - 1) : StrLess(L[i], L[i + 1])

\* C3 as claimed: every list an accessor returns is sorted and without
\* duplicates, two values that differ only in letter case counting as
\* duplicates.
C3_SortedDedupIgnoringCase ==
    \A L \in {shared_mailboxes, group_names, owner_groups} :
        /\ StrictlySorted(L)
        /\ \A i, j \in 1..Len(L) : i # j => lower(L[i]) # lower(L[j])

\* C3 amended: every list an accessor returns is sorted by code point and holds
\* no value twice, for any order of the rows; values are compared after
\* trimming only, so values that differ in letter case are distinct and each
\* appears.
C3_SortedDedupExact ==
    /\ \A L \in {shared_mailboxes, group_names, owner_groups} :
          /\ StrictlySorted(L)
          /\ \A i \in 1..Len(L) : L[i] # <<>> /\ L[i] = strip(L[i])
    /\ Ran("sm", df_sm) =>
          MatchedValues(df_sm, H_Member, H_EmailAddress) \subseteq Range(shared_mailboxes)
    /\ Ran("groups", df_groups) =>
          MatchedValues(df_groups, H_MemberUserPrincipalName, H_GroupName)
              \subseteq Range(group_names)
    /\ Ran("owners", df_owners) =>
          MatchedValues(df_owners, H_OwnerEmail, H_GroupName) \subseteq Range(owner_groups)

\* C3 witness: rows given in descending order whose values differ only in
\* letter case come back as two values, uppercase first
C3_Witness ==
    /\ pc = "done"
    /\ ~IsNone(df_owners)
    /\ df_owners.rows = <<<<U1, G1>>, <<U1, G1up>>>>
    /\ owner_groups = <<G1up, G1>>

\* the headers of a table that equal, after trimming and lowercasing both, the
\* first synonym in list order that equals any header at all
HeadersOfFirstSynonym(df, candidates) ==
    LET hits == {i \in 1..Len(candidates) :
                    \E j \in 1..Len(df.columns) : Norm(df.columns[j]) = Norm(candidates[i])}
    IN  IF hits = {} THEN {}
        ELSE LET first == CHOOSE i \in hits : \A k \in hits : i <= k
             IN  {df.columns[j] : j \in {k \in 1..Len(df.columns) :
                                            Norm(df.columns[k]) = Norm(candidates[first])}}

ResolvesToFirstSynonym(df, candidates) ==
    IF HeadersOfFirstSynonym(df, candidates) = {}
    THEN _resolve_any_column(df, candidates) = None
    ELSE _resolve_any_column(df, candidates) \in HeadersOfFirstSynonym(df, candidates)

\* the lists of missing fields reported for a table
MissingReported(label) ==
    LET msgs == SelectSeq(st_log, LAMBDA m : m.what = "missing" /\ m.label = label)
    IN  [i \in 1..Len(msgs) |-> msgs[i].missing]

\* what the report of a table must be: none when no field lacks a header, else
\* one report of the lacking fields in order
MissingExpected(lacking) == IF lacking = <<>> THEN <<>> ELSE <<lacking>>

OwnerAvvisi == SelectSeq(avvisi, LAMBDA a : a.kind # "ultimo_sm")

\* the warnings of build_shared_mailbox_last_user_warnings
SharedAvvisi == SelectSeq(avvisi, LAMBDA a : a.kind = "ultimo_sm")

PerGroupKinds == {"no_members", "unico", "altri", "nessun_altro"}

\* the membership table has a group-name column and a member column
HasNeededColumns(df) ==
    /\ ~IsNone(df)
    /\ HeadersOfFirstSynonym(df, group_candidates) # {}
    /\ \/ HeadersOfFirstSynonym(df, member_email_candidates) # {}
       \/ HeadersOfFirstSynonym(df, member_upn_candidates) # {}

\* the summary first, then one advisory per owned group, in order
SummaryThenOnePerGroup ==
    /\ Len(OwnerAvvisi) = 1 + Len(owner_groups)
    /\ OwnerAvvisi[1] = [kind |-> "owner_summary", groups |-> owner_groups]
    /\ \A i \in 1..Len(owner_groups) :
          /\ OwnerAvvisi[i + 1].kind \in PerGroupKinds
          /\ OwnerAvvisi[i + 1].grp = owner_groups[i]

\* C5 as claimed: for a non-empty list of owned groups and every state of the
\* membership table the warnings are the summary followed by one advisory per
\* owned group, 1 + n lines; for an empty list there are none.
C5_OneLinePerGroupAlways ==
    Past("avvisi") =>
        IF owner_groups = <<>> THEN OwnerAvvisi = <<>> ELSE SummaryThenOnePerGroup

\* C5 amended: for a non-empty list of owned groups the summary comes first;
\* it is followed by one advisory per owned group, 1 + n lines, when the
\* membership table is there with a group-name column and a member column, and
\* otherwise by one single line saying what is lacking (the table, the
\* group-name column, the member column), 2 lines; for an empty list there are
\* no lines.
C5_OneLinePerGroupWithColumns ==
    Past("avvisi") =>
        IF owner_groups = <<>> THEN OwnerAvvisi = <<>>
        ELSE IF HasNeededColumns(df_groups) THEN SummaryThenOnePerGroup
        ELSE /\ Len(OwnerAvvisi) = 2
             /\ OwnerAvvisi[1] = [kind |-> "owner_summary", groups |-> owner_groups]
             /\ OwnerAvvisi[2] =
                   [kind |-> IF IsNone(df_groups) THEN "no_file"
                             ELSE IF HeadersOfFirstSynonym(df_groups, group_candidates) = {}
                             THEN "no_group_column"
                             ELSE "no_member_column"]

\* C5 witness: the owner of two groups gets three lines from a table with the
\* columns, one group without rows and one with the user alone
C5_Witness ==
    /\ pc = "done"
    /\ owner_groups = <<G1, G2>>
    /\ HasNeededColumns(df_groups)
    /\ Len(avvisi) = 3
    /\ avvisi[2].kind = "no_members"
    /\ avvisi[3].kind = "unico"

\* C5 second case reached: the owner of two groups gets two lines when the
\* table has no member column
C5_DiagnosticReached ==
    /\ pc = "done"
    /\ Len(owner_groups) = 2
    /\ ~IsNone(df_groups)
    /\ ~HasNeededColumns(df_groups)
    /\ Len(avvisi) = 2

\* the rows of the membership table of one group
GroupRows(df, grp) ==
    {i \in 1..Len(df.rows) :
        LET c == Column(df, _resolve_any_column(df, group_candidates))[i]
        IN  c # NaN /\ strip(c) = strip(grp)}

\* the trimmed texts of the member cells of a group that are neither empty nor
\* blank, read from the member-email column when there is one, else from the
\* member-principal-name column
PresentMembers(df, grp) ==
    {strip(Column(df, OwnerMemberColumn(df))[i]) :
        i \in {k \in GroupRows(df, grp) : Column(df, OwnerMemberColumn(df))[k] # NaN}}
    \ {<<>>}

\* the members of a group other than the user, letter case aside
PresentOthers(df, grp) == {m \in PresentMembers(df, grp) : lower(m) # upn_input}

\* the advisory the claim gives a group that has rows
ClaimedKind(df, grp) ==
    IF Cardinality(PresentMembers(df, grp)) = 1 /\ PresentOthers(df, grp) = {}
    THEN "unico"
    ELSE IF PresentOthers(df, grp) # {} THEN "altri"
    ELSE "nessun_altro"

Classified(i) ==
    LET a == OwnerAvvisi[i + 1]
        grp == owner_groups[i]
    IN  IF GroupRows(df_groups, grp) = {} THEN a.kind = "no_members"
        ELSE /\ a.kind = ClaimedKind(df_groups, grp)
             /\ a.kind = "altri" => Range(a.others) = PresentOthers(df_groups, grp)

\* C6: each owned group that has rows gets the "unico utente registrato"
\* advisory if and only if its member list (from the member-email column when
\* present, else from the member-principal-name column) is exactly one member
\* equal to the user; otherwise, if a member differs from the user, the
\* advisory that lists exactly the members that differ; otherwise the neutral
\* advisory.
C6_OwnerClassification ==
    (Past("avvisi") /\ owner_groups # <<>> /\ HasNeededColumns(df_groups)) =>
        \A i \in 1..Len(owner_groups) : Classified(i)

\* no member cell of the table is empty
NoEmptyMemberCell(df) ==
    \A i \in 1..Len(df.rows) : Column(df, OwnerMemberColumn(df))[i] # NaN

\* the classification of C6 on the tables without an empty member cell
OwnerClassificationOfPresentCells ==
    (Past("avvisi") /\ owner_groups # <<>> /\ HasNeededColumns(df_groups)
        /\ NoEmptyMemberCell(df_groups)) =>
        \A i \in 1..Len(owner_groups) : Classified(i)

\* the lowercased trimmed texts of the member cells of a shared mailbox that
\* are neither empty nor blank
PresentSharedMembers(df, sm) ==
    {lower(strip(df.rows[i][1])) :
        i \in {k \in 1..Len(df.rows) :
                  /\ df.rows[k][2] # NaN /\ strip(df.rows[k][2]) = sm
                  /\ df.rows[k][1] # NaN}}
    \ {<<>>}

\* C7: a "last remaining user" advisory names a shared mailbox of the list if
\* and only if the rows of that address have exactly one member and it is the
\* user; no advisory names an address outside the list, and none is repeated.
C7_LastUserAdvisory ==
    (Past("avvisi") /\ ~IsNone(df_sm) /\ df_sm.columns = SmCols) =>
        /\ \A sm \in Range(shared_mailboxes) :
              (\E i \in 1..Len(SharedAvvisi) : SharedAvvisi[i].sm = sm)
                  <=> PresentSharedMembers(df_sm, sm) = {upn_input}
        /\ \A i \in 1..Len(SharedAvvisi) :
              /\ SharedAvvisi[i].sm \in Range(shared_mailboxes)
              /\ SharedAvvisi[i].upn = upn_input
              /\ \A j \in 1..Len(SharedAvvisi) :
                    SharedAvvisi[i].sm = SharedAvvisi[j].sm => i = j

\* the advisory rule of C7 on the tables without an empty member cell
LastUserAdvisoryOfPresentCells ==
    (~IsNone(df_sm) /\ \A i \in 1..Len(df_sm.rows) : df_sm.rows[i][1] # NaN)
        => C7_LastUserAdvisory

\* C10: the member list of an owned group and of a shared mailbox holds only
\* the trimmed text of member cells that are neither empty nor blank, and the
\* users an advisory lists are members of that kind.
C10_AbsentCellNeverMember ==
    /\ (Past("avvisi") /\ owner_groups # <<>> /\ HasNeededColumns(df_groups)) =>
          /\ \A i \in 1..Len(owner_groups) :
                Range(OwnerMembersAll(df_groups, owner_groups[i]))
                    \subseteq PresentMembers(df_groups, owner_groups[i])
          /\ \A i \in 1..Len(OwnerAvvisi) :
                OwnerAvvisi[i].kind = "altri" =>
                    Range(OwnerAvvisi[i].others)
                        \subseteq PresentMembers(df_groups, OwnerAvvisi[i].grp)
    /\ (Past("avvisi") /\ ~IsNone(df_sm) /\ df_sm.columns = SmCols) =>
          \A sm \in Range(shared_mailboxes) :
              Range(SharedMembers(df_sm, sm)) \subseteq PresentSharedMembers(df_sm, sm)

Logged(m) == \E i \in 1..Len(st_log) : st_log[i] = m

MissingLogged(label) ==
    \E i \in 1..Len(st_log) : st_log[i].what = "missing" /\ st_log[i].label = label

\* what the run holds of one upload once its accessor has run: a note when it
\* was absent or unreadable, the report of the missing fields and the empty
\* result when it lacks a required field, else the result of its rows
Outcome(file, df, label, cols, empty, result, found) ==
    IF ~file.uploaded \/ ~file.readable
    THEN IsNone(df) /\ Logged(InfoMsg(label)) /\ result = empty
    ELSE /\ df = file.content
         /\ ~Logged(InfoMsg(label))
         /\ IF df.columns # cols
            THEN MissingLogged(label) /\ result = empty
            ELSE /\ ~MissingLogged(label)
                 /\ result = IF Len(df.rows) = 2 THEN found ELSE empty

\* C8: whatever each of the five uploads is (absent, unreadable, without a
\* required field, without a matching row, with one), a run with a user name
\* that is not empty after trimming raises nothing on its way to the checklist
\* and the warnings, an upload without a required field giving an empty result
\* while the accessors after it still run; a run with an empty user name stops
\* at the button, having read no upload and made no checklist and no warning.
C8_RunCompletesUnlessNoUpn ==
    /\ pc \in Range(PcOrder) \cup {"stopped"}
    /\ Past("button") => strip(upn_widget) # <<>>
    /\ pc = "stopped" =>
          /\ strip(upn_widget) = <<>>
          /\ \A df \in {df_utenti, df_sm, df_groups, df_umbx, df_owners} : IsNone(df)
          /\ steps = <<>> /\ full_text = <<>> /\ avvisi = <<>>
          /\ st_log = <<[level |-> "error", what |-> "no_upn"]>>
    /\ Past("template") => steps # <<>>
    /\ pc = "done" =>
          /\ full_text # <<>>
          /\ Outcome(f_utenti, df_utenti, "Utenti_Azure", UtentiCols,
                     <<None, None>>, <<display_name, manager_display_name>>, <<D1, M1>>)
          /\ Outcome(f_sm, df_sm, "SharedMailboxesDetails", SmCols,
                     <<>>, shared_mailboxes, <<S1>>)
          /\ Outcome(f_groups, df_groups, "EntraGroupMembers", GroupsCols,
                     <<>>, group_names, <<G1>>)
          /\ Outcome(f_umbx, df_umbx, "UserMailboxes", UmbxCols,
                     FALSE, has_user_mailbox, TRUE)
          /\ Outcome(f_owners, df_owners, "EntraGroupOwners", OwnersCols,
                     <<>>, owner_groups, <<G1>>)
          /\ (owner_groups # <<>>) => Len(avvisi) >= 2

\* every step of a run goes to the next position of main, but for the button
\* pressed with no user name
EveryStepAdvances ==
    [][pc' = IF pc = "button" /\ upn_input = <<>> THEN "stopped"
             ELSE PcOrder[PcIndex(pc) + 1]]_vars

\* C8 witness: a run ends with the checklist and the warnings though the first
\* upload is unreadable and the second lacks a field, the accessors after them
\* having found the user's group, mailbox and owned group
C8_Witness ==
    /\ pc = "done"
    /\ f_utenti = Unreadable
    /\ ~IsNone(df_sm) /\ df_sm.columns = <<H_Member>>
    /\ MissingLogged("SharedMailboxesDetails")
    /\ group_names = <<G1>>
    /\ has_user_mailbox
    /\ owner_groups = <<G1>>
    /\ Len(steps) > 0
    /\ Len(avvisi) = 2

\* a run stopped at the button for a user name of blanks only
StoppedReached == pc = "stopped" /\ upn_widget = Blank /\ f_utenti.uploaded

====
